---- MODULE Spec2Model ----
(***************************************************************************)
(* tell: natural language -> shell command, with a SQLite command history. *)
(*                                                                         *)
(* Four specifications over one state:                                     *)
(*   - Spec: the history store (internal/storage): the command_history     *)
(*     table, its schema, and the statements AddHistoryEntry,              *)
(*     GetHistoryEntry, GetHistoryEntries, GetMostRecentSuccessfulCommand, *)
(*     SetFavorite and DeleteHistoryEntry run against it;                  *)
(*   - SearchSpec: GetHistoryEntries and SearchHistory over tables whose   *)
(*     texts differ in letter case and hold LIKE's special characters;     *)
(*   - ParserSpec: the response parser (internal/llm):                     *)
(*     parseAndValidateResponse over texts, with the JSON decoding it      *)
(*     relies on;                                                          *)
(*   - CliSpec: the commands prompt, history favorite and history delete   *)
(*     (main.go) as processes interleaving on one database.                *)
(*                                                                         *)
(* Text is a sequence of characters; a character is a one-symbol string.   *)
(***************************************************************************)
EXTENDS Integers, Sequences, FiniteSets, TLC

VARIABLES
    tableCols,     \* columns of command_history in the database file ({} = no table)
    rows,          \* the rows of command_history
    lastRowID,     \* sqlite_sequence of the AUTOINCREMENT key: largest id ever assigned
    now,           \* CURRENT_TIMESTAMP at the latest INSERT, in whole seconds
    last,          \* the last storage call: its name, arguments, error and result
    justAdded,     \* the call before last, when it was a successful AddHistoryEntry
    issued,        \* the ids AddHistoryEntry has returned, in the order it returned them
    responseText,  \* parser: the text content of the model's reply
    parsed,        \* parser: what parseAndValidateResponse returned for it
    ppc,           \* parser: "idle" | "received" | "parsed"
    inv,           \* command line: the running invocations of tell, one record per process
    done,          \* command line: the invocation that exited last, as it ended
    runs           \* command line: the number of invocations started

vars == <<tableCols, rows, lastRowID, now, last, justAdded, issued, responseText, parsed, ppc, inv, done, runs>>
storeVars == <<tableCols, rows, lastRowID, now, last, justAdded, issued>>
parserVars == <<responseText, parsed, ppc>>
dbVars == <<tableCols, rows, lastRowID, now>>
callVars == <<last, justAdded, issued>>
cliVars == <<inv, done, runs>>

----------------------------------------------------------------------------
(* Bounds *)

MaxId == 2          \* ids handed out in one behaviour
MaxRuns == 3        \* invocations of the command line in one behaviour

----------------------------------------------------------------------------
(* Go values *)

NoError == "nil"                       \* a nil error
ErrStorage == "storage"                \* the driver returned an error
ErrNotFound == "not found"             \* "no history entry found with ID %d"
ErrNoPrevious == "no previous"         \* "no previous successful commands found"

Nil == <<>>                            \* a nil pointer; &v is <<v>>
Ref(v) == <<v>>
Deref(p) == p[1]

NullInt64 == [Valid |-> FALSE, Int64 |-> 0]          \* sql.NullInt64{}
ValidInt64(n) == [Valid |-> TRUE, Int64 |-> n]

SqlNULL == <<"\\N">>                   \* the SQL NULL of a TEXT column

Min2(a, b) == IF a < b THEN a ELSE b

----------------------------------------------------------------------------
(* Input domains of the store's calls *)

OkResponse == [Command |-> <<"l", "s">>, Details |-> <<"d">>, ShowDetails |-> TRUE]
SomeUsage == [Model |-> <<"m">>, InputTokens |-> 1, OutputTokens |-> 2]

\* the arguments AddHistoryEntry is called with: a generation that succeeded,
\* fresh and continued from entry 1; a call with nothing but a prompt; and a
\* command stored together with an error.  Between them response and usage are
\* nil and not nil, errorMsg empty and not, parentID NULL and not.
AddArgs ==
    {[prompt |-> <<"p">>, response |-> Ref(OkResponse), usage |-> Ref(SomeUsage),
      errorMsg |-> <<>>, parentID |-> NullInt64],
     [prompt |-> <<"p">>, response |-> Ref(OkResponse), usage |-> Ref(SomeUsage),
      errorMsg |-> <<>>, parentID |-> ValidInt64(1)],
     [prompt |-> <<"p">>, response |-> Nil, usage |-> Nil,
      errorMsg |-> <<>>, parentID |-> NullInt64],
     [prompt |-> <<"p">>, response |-> Ref(OkResponse), usage |-> Nil,
      errorMsg |-> <<"e">>, parentID |-> NullInt64]}
\* CURRENT_TIMESTAMP has a resolution of one second: two INSERTs fall in the same
\* second or in different ones
Elapsed == {0, 1}
Ids == 1..(MaxId + 1)
Limits == {1, MaxId + 1}

----------------------------------------------------------------------------
(* The schema: internal/storage/db.go *)

\* the columns CREATE TABLE IF NOT EXISTS command_history declares
schema ==
    {"id", "timestamp", "prompt", "command", "details", "show_details",
     "error_message", "model", "input_tokens", "output_tokens", "favorite"}

\* the columns of a command_history table that already exists in the database
\* file with the persisted schema the design documents (parent_id included)
PersistedSchema == schema \cup {"parent_id"}

\* CREATE TABLE IF NOT EXISTS: an existing table is left as it is
ExecSchema(cols) == IF cols = {} THEN schema ELSE cols

InsertColumns ==
    {"prompt", "command", "details", "show_details", "error_message", "model",
     "input_tokens", "output_tokens", "parent_id"}

SelectColumns ==
    {"id", "timestamp", "prompt", "command", "details", "show_details",
     "error_message", "model", "input_tokens", "output_tokens", "favorite",
     "parent_id"}

\* a statement prepares only when the table has every column it names
Prepares(cols, used) == cols # {} /\ used \subseteq cols

----------------------------------------------------------------------------
(* The statements: internal/storage/history.go *)

\* NewRow with the usage argument never read: model and token counts keep the
\* column defaults
NewRowWithoutUsage(id, ts, prompt, response, usage, errorMsg, parentID) ==
    [id            |-> id,
     timestamp     |-> ts,
     prompt        |-> prompt,
     command       |-> IF response # Nil THEN Deref(response).Command ELSE <<>>,
     details       |-> IF response # Nil THEN Deref(response).Details ELSE <<>>,
     show_details  |-> IF response # Nil THEN Deref(response).ShowDetails ELSE FALSE,
     error_message |-> errorMsg,
     model         |-> <<>>,
     input_tokens  |-> 0,
     output_tokens |-> 0,
     favorite      |-> FALSE,
     parent_id     |-> parentID]

\* the row INSERT stores: id from AUTOINCREMENT, timestamp and favorite from
\* the column defaults, the rest from the arguments
NewRow(id, ts, prompt, response, usage, errorMsg, parentID) ==
    [id            |-> id,
     timestamp     |-> ts,
     prompt        |-> prompt,
     command       |-> IF response # Nil THEN Deref(response).Command ELSE <<>>,
     details       |-> IF response # Nil THEN Deref(response).Details ELSE <<>>,
     show_details  |-> IF response # Nil THEN Deref(response).ShowDetails ELSE FALSE,
     error_message |-> errorMsg,
     model         |-> IF usage # Nil THEN Deref(usage).Model ELSE <<>>,
     input_tokens  |-> IF usage # Nil THEN Deref(usage).InputTokens ELSE 0,
     output_tokens |-> IF usage # Nil THEN Deref(usage).OutputTokens ELSE 0,
     favorite      |-> FALSE,
     parent_id     |-> parentID]

\* ExecInsert on a key without AUTOINCREMENT: the new id is one more than the
\* largest id in the table
ExecInsertRowid(cols, tbl, seq, ts, prompt, response, usage, errorMsg, parentID, ioErr) ==
    IF ioErr \/ ~Prepares(cols, InsertColumns)
    THEN [rows |-> tbl, seq |-> seq, err |-> ErrStorage, id |-> 0]
    ELSE LET top == IF tbl = {} THEN 0 ELSE CHOOSE n \in {r.id : r \in tbl} : \A r \in tbl : r.id <= n
         IN  [rows |-> tbl \cup {NewRow(top + 1, ts, prompt, response, usage, errorMsg, parentID)},
              seq  |-> top + 1,
              err  |-> NoError,
              id   |-> top + 1]

\* db.conn.Exec(INSERT ...): the table after it, the error and LastInsertId
ExecInsert(cols, tbl, seq, ts, prompt, response, usage, errorMsg, parentID, ioErr) ==
    IF ioErr \/ ~Prepares(cols, InsertColumns)
    THEN [rows |-> tbl, seq |-> seq, err |-> ErrStorage, id |-> 0]
    ELSE [rows |-> tbl \cup {NewRow(seq + 1, ts, prompt, response, usage, errorMsg, parentID)},
          seq  |-> seq + 1,
          err  |-> NoError,
          id   |-> seq + 1]

\* SELECT ... WHERE id = ?, scanned into a HistoryEntry
QueryByID(cols, tbl, id) ==
    IF ~Prepares(cols, SelectColumns)
    THEN [err |-> ErrStorage, ret |-> Nil]
    ELSE IF \E r \in tbl : r.id = id
         THEN [err |-> NoError, ret |-> Ref(CHOOSE r \in tbl : r.id = id)]
         ELSE [err |-> ErrNotFound, ret |-> Nil]

\* SuccessfulWhere with the error_message conditions left out
WhereCommandOnly(r) == r.command # <<>>

\* a query with no WHERE clause
WhereAnyRow(r) == TRUE

\* WHERE command != '' AND error_message IS NULL OR error_message = ''
\* (AND binds tighter than OR)
SuccessfulWhere(r) ==
    \/ (r.command # <<>> /\ r.error_message = SqlNULL)
    \/ r.error_message = <<>>

\* the rows ORDER BY timestamp DESC LIMIT 1 may return: the order of rows with
\* equal timestamps is not decided by the statement
NewestOf(S) == {r \in S : \A q \in S : q.timestamp <= r.timestamp}

\* the outcomes of GetMostRecentSuccessfulCommand's query
QueryMostRecent(cols, tbl) ==
    IF ~Prepares(cols, SelectColumns)
    THEN {[err |-> ErrStorage, ret |-> Nil]}
    ELSE LET hits == {r \in tbl : SuccessfulWhere(r)}
         IN  IF hits = {}
             THEN {[err |-> ErrNoPrevious, ret |-> Nil]}
             ELSE {[err |-> NoError, ret |-> Ref(r)] : r \in NewestOf(hits)}

\* ExecSetFavorite flipping the flag instead of storing the argument
ExecToggleFavorite(cols, tbl, id, favorite) ==
    IF ~Prepares(cols, {"id", "favorite"})
    THEN [rows |-> tbl, err |-> ErrStorage]
    ELSE [rows |-> {IF r.id = id THEN [r EXCEPT !.favorite = ~r.favorite] ELSE r : r \in tbl},
          err  |-> IF \E r \in tbl : r.id = id THEN NoError ELSE ErrNotFound]

\* ExecSetFavorite with the WHERE clause applied to the result only: every row
\* is updated
ExecSetFavoriteAll(cols, tbl, id, favorite) ==
    IF ~Prepares(cols, {"id", "favorite"})
    THEN [rows |-> tbl, err |-> ErrStorage]
    ELSE [rows |-> {[r EXCEPT !.favorite = favorite] : r \in tbl},
          err  |-> IF \E r \in tbl : r.id = id THEN NoError ELSE ErrNotFound]

\* UPDATE command_history SET favorite = ? WHERE id = ?
ExecSetFavorite(cols, tbl, id, favorite) ==
    IF ~Prepares(cols, {"id", "favorite"})
    THEN [rows |-> tbl, err |-> ErrStorage]
    ELSE [rows |-> {IF r.id = id THEN [r EXCEPT !.favorite = favorite] ELSE r : r \in tbl},
          err  |-> IF \E r \in tbl : r.id = id THEN NoError ELSE ErrNotFound]

\* ExecDelete cascading to the rows that continue from the deleted one
ExecDeleteCascade(cols, tbl, id) ==
    IF ~Prepares(cols, {"id"})
    THEN [rows |-> tbl, err |-> ErrStorage]
    ELSE [rows |-> {r \in tbl : r.id # id /\ r.parent_id # ValidInt64(id)},
          err  |-> IF \E r \in tbl : r.id = id THEN NoError ELSE ErrNotFound]

\* DELETE FROM command_history WHERE id = ?
ExecDelete(cols, tbl, id) ==
    IF ~Prepares(cols, {"id"})
    THEN [rows |-> tbl, err |-> ErrStorage]
    ELSE [rows |-> {r \in tbl : r.id # id},
          err  |-> IF \E r \in tbl : r.id = id THEN NoError ELSE ErrNotFound]

\* the lower-case form of an ASCII letter: LIKE and encoding/json's field
\* matching both compare letters without regard to case
Lower(c) ==
    CASE c = "A" -> "a" [] c = "B" -> "b" [] c = "C" -> "c" [] c = "D" -> "d"
      [] c = "E" -> "e" [] c = "F" -> "f" [] c = "G" -> "g" [] c = "H" -> "h"
      [] c = "I" -> "i" [] c = "J" -> "j" [] c = "K" -> "k" [] c = "L" -> "l"
      [] c = "M" -> "m" [] c = "N" -> "n" [] c = "O" -> "o" [] c = "P" -> "p"
      [] c = "Q" -> "q" [] c = "R" -> "r" [] c = "S" -> "s" [] c = "T" -> "t"
      [] c = "U" -> "u" [] c = "V" -> "v" [] c = "W" -> "w" [] c = "X" -> "x"
      [] c = "Y" -> "y" [] c = "Z" -> "z"
      [] OTHER -> c

\* text LIKE pat, with no ESCAPE clause: % is any run of characters, _ any one
\* character, letters match without regard to case
RECURSIVE Like(_, _)
Like(text, pat) ==
    IF pat = <<>> THEN text = <<>>
    ELSE IF Head(pat) = "%"
         THEN Like(text, Tail(pat)) \/ (text # <<>> /\ Like(Tail(text), pat))
         ELSE /\ text # <<>>
              /\ (Head(pat) = "_" \/ Lower(Head(pat)) = Lower(Head(text)))
              /\ Like(Tail(text), Tail(pat))

\* the WHERE clause GetHistoryEntries builds
EntriesWhere(r, onlyFavorites, searchTerm) ==
    /\ onlyFavorites => r.favorite
    /\ searchTerm # <<>> =>
          LET searchParam == <<"%">> \o searchTerm \o <<"%">>
          IN  Like(r.prompt, searchParam) \/ Like(r.command, searchParam)

\* the orders ORDER BY timestamp DESC may list the rows of S in
OrderByTimestampDesc(S) ==
    LET n == Cardinality(S)
    IN  {s \in [1..n -> S] :
            /\ \A i, j \in 1..n : i # j => s[i] # s[j]
            /\ \A i, j \in 1..n : i < j => s[i].timestamp >= s[j].timestamp}

\* LIMIT ? OFFSET ?: a negative limit is no limit, a negative offset is 0
LimitOffset(s, limit, offset) ==
    LET off == IF offset < 0 THEN 0 ELSE offset
        n   == Len(s)
        to  == IF limit < 0 THEN n ELSE Min2(n, off + limit)
    IN  SubSeq(s, off + 1, to)

\* the outcomes of GetHistoryEntries' query
QueryEntries(cols, tbl, limit, offset, onlyFavorites, searchTerm) ==
    IF ~Prepares(cols, SelectColumns)
    THEN {[err |-> ErrStorage, ret |-> <<>>]}
    ELSE {[err |-> NoError, ret |-> LimitOffset(s, limit, offset)] :
            s \in OrderByTimestampDesc({r \in tbl : EntriesWhere(r, onlyFavorites, searchTerm)})}

ErrEmptyQuery == "search query cannot be empty"

\* strings.Replace(query, "%", "\\%", -1)
RECURSIVE EscapePercent(_)
EscapePercent(query) ==
    IF query = <<>> THEN <<>>
    ELSE (IF Head(query) = "%" THEN <<"\\", "%">> ELSE <<Head(query)>>)
             \o EscapePercent(Tail(query))

\* the outcomes of SearchHistory: WHERE prompt LIKE ? OR command LIKE ?
\* ORDER BY timestamp DESC LIMIT ?, the pattern with its % escaped
QuerySearch(cols, tbl, query, limit) ==
    IF query = <<>>
    THEN {[err |-> ErrEmptyQuery, ret |-> <<>>]}
    ELSE IF ~Prepares(cols, SelectColumns)
    THEN {[err |-> ErrStorage, ret |-> <<>>]}
    ELSE LET searchParam == <<"%">> \o EscapePercent(query) \o <<"%">>
         IN  {[err |-> NoError, ret |-> LimitOffset(s, limit, 0)] :
                 s \in OrderByTimestampDesc(
                          {r \in tbl : Like(r.prompt, searchParam) \/ Like(r.command, searchParam)})}

----------------------------------------------------------------------------
(* The store's calls as actions.  Every call records itself in last, with the
   table as it was before the call; justAdded is the call before it, when that
   was an AddHistoryEntry that returned an id. *)

NoCall == [op |-> "none", args |-> <<>>, err |-> NoError, ret |-> Nil, before |-> {}]

Call(op, args, err, ret) ==
    [op |-> op, args |-> args, err |-> err, ret |-> ret, before |-> rows]

Added == IF last.op = "AddHistoryEntry" /\ last.err = NoError THEN Ref(last) ELSE Nil

InitSchema ==
    /\ tableCols' = ExecSchema(tableCols)
    /\ last' = Call("InitSchema", <<>>, NoError, Nil)
    /\ justAdded' = Added
    /\ UNCHANGED <<rows, lastRowID, now, issued>>

\* elapsed: the whole seconds CURRENT_TIMESTAMP advanced since the latest INSERT
AddHistoryEntry(prompt, response, usage, errorMsg, parentID, ioErr, elapsed) ==
    /\ lastRowID < MaxId
    /\ LET res == ExecInsert(tableCols, rows, lastRowID, now + elapsed, prompt, response,
                             usage, errorMsg, parentID, ioErr)
       IN  /\ rows' = res.rows
           /\ now' = IF res.err = NoError THEN now + elapsed ELSE now
           /\ lastRowID' = res.seq
           /\ last' = Call("AddHistoryEntry",
                           [prompt |-> prompt, response |-> response, usage |-> usage,
                            errorMsg |-> errorMsg, parentID |-> parentID, ioErr |-> ioErr],
                           res.err, res.id)
           /\ issued' = IF res.err = NoError THEN Append(issued, res.id) ELSE issued
    /\ justAdded' = Added
    /\ UNCHANGED tableCols

GetHistoryEntry(id) ==
    /\ LET res == QueryByID(tableCols, rows, id)
       IN  last' = Call("GetHistoryEntry", [id |-> id], res.err, res.ret)
    /\ justAdded' = Added
    /\ UNCHANGED <<tableCols, rows, lastRowID, now, issued>>

GetMostRecentSuccessfulCommand ==
    /\ \E res \in QueryMostRecent(tableCols, rows) :
          last' = Call("GetMostRecentSuccessfulCommand", <<>>, res.err, res.ret)
    /\ justAdded' = Added
    /\ UNCHANGED <<tableCols, rows, lastRowID, now, issued>>

GetHistoryEntries(limit, offset, onlyFavorites, searchTerm) ==
    /\ \E res \in QueryEntries(tableCols, rows, limit, offset, onlyFavorites, searchTerm) :
          last' = Call("GetHistoryEntries",
                       [limit |-> limit, offset |-> offset, onlyFavorites |-> onlyFavorites,
                        searchTerm |-> searchTerm],
                       res.err, res.ret)
    /\ justAdded' = Added
    /\ UNCHANGED <<tableCols, rows, lastRowID, now, issued>>

SetFavorite(id, favorite) ==
    /\ LET res == ExecSetFavorite(tableCols, rows, id, favorite)
       IN  /\ rows' = res.rows
           /\ last' = Call("SetFavorite", [id |-> id, favorite |-> favorite], res.err, Nil)
    /\ justAdded' = Added
    /\ UNCHANGED <<tableCols, lastRowID, now, issued>>

DeleteHistoryEntry(id) ==
    /\ LET res == ExecDelete(tableCols, rows, id)
       IN  /\ rows' = res.rows
           /\ last' = Call("DeleteHistoryEntry", [id |-> id], res.err, Nil)
    /\ justAdded' = Added
    /\ UNCHANGED <<tableCols, lastRowID, now, issued>>

SearchHistory(query, limit) ==
    /\ \E res \in QuerySearch(tableCols, rows, query, limit) :
          last' = Call("SearchHistory", [query |-> query, limit |-> limit], res.err, res.ret)
    /\ justAdded' = Added
    /\ UNCHANGED <<tableCols, rows, lastRowID, now, issued>>

----------------------------------------------------------------------------
(* encoding/json, as far as json.Unmarshal into a CommandResponse goes.  A
   text is scanned from a position i; a scan returns where it stopped. *)

Fail == [ok |-> FALSE, next |-> 0, kind |-> "", val |-> <<>>]
Okay(kind, val, next) == [ok |-> TRUE, next |-> next, kind |-> kind, val |-> val]

IsSpace(c) == c \in {" ", "\t", "\n", "\r"}
Digits == {"0", "1", "2", "3", "4", "5", "6", "7", "8", "9"}

\* the character a one-letter backslash escape stands for
Escapes == {"\"", "\\", "/", "n", "t", "r"}
Unescape(c) ==
    CASE c = "n" -> "\n" [] c = "t" -> "\t" [] c = "r" -> "\r" [] OTHER -> c

\* \uXXXX: four hexadecimal digits naming a code point
HexDigits == Digits \cup {"a", "b", "c", "d", "e", "f", "A", "B", "C", "D", "E", "F"}
HexVal(c) ==
    CASE c = "0" -> 0 [] c = "1" -> 1 [] c = "2" -> 2 [] c = "3" -> 3 [] c = "4" -> 4
      [] c = "5" -> 5 [] c = "6" -> 6 [] c = "7" -> 7 [] c = "8" -> 8 [] c = "9" -> 9
      [] c \in {"a", "A"} -> 10 [] c \in {"b", "B"} -> 11 [] c \in {"c", "C"} -> 12
      [] c \in {"d", "D"} -> 13 [] c \in {"e", "E"} -> 14 [] c \in {"f", "F"} -> 15
CodePoint(h) == ((HexVal(h[1]) * 16 + HexVal(h[2])) * 16 + HexVal(h[3])) * 16 + HexVal(h[4])

\* the printable ASCII characters, from code point 32 (the grave accent, which
\* a string of this notation cannot hold, written U+96)
Ascii ==
    <<" ", "!", "\"", "#", "$", "%", "&", "'", "(", ")", "*", "+", ",", "-", ".", "/",
      "0", "1", "2", "3", "4", "5", "6", "7", "8", "9", ":", ";", "<", "=", ">", "?",
      "@", "A", "B", "C", "D", "E", "F", "G", "H", "I", "J", "K", "L", "M", "N", "O",
      "P", "Q", "R", "S", "T", "U", "V", "W", "X", "Y", "Z", "[", "\\", "]", "^", "_",
      "U+96", "a", "b", "c", "d", "e", "f", "g", "h", "i", "j", "k", "l", "m", "n", "o",
      "p", "q", "r", "s", "t", "u", "v", "w", "x", "y", "z", "{", "|", "}", "~">>

\* the character of a code point; a character outside ASCII is written U+n,
\* and half a surrogate pair decodes to U+65533 (pairs are not among the inputs)
Rune(n) ==
    IF n - 31 \in DOMAIN Ascii THEN Ascii[n - 31]
    ELSE CASE n = 9 -> "\t" [] n = 10 -> "\n" [] n = 13 -> "\r"
           [] n \in 55296..57343 -> "U+65533"
           [] OTHER -> "U+" \o ToString(n)

RECURSIVE SkipSpace(_, _)
SkipSpace(s, i) == IF i <= Len(s) /\ IsSpace(s[i]) THEN SkipSpace(s, i + 1) ELSE i

StartsAt(s, i, lit) == i + Len(lit) - 1 <= Len(s) /\ SubSeq(s, i, i + Len(lit) - 1) = lit

\* a string literal from the character after its opening quote
RECURSIVE ScanString(_, _, _)
ScanString(s, i, acc) ==
    IF i > Len(s) THEN Fail
    ELSE IF s[i] = "\"" THEN Okay("string", acc, i + 1)
    ELSE IF s[i] = "\\"
         THEN IF i + 1 <= Len(s) /\ s[i + 1] \in Escapes
              THEN ScanString(s, i + 2, Append(acc, Unescape(s[i + 1])))
              ELSE IF /\ i + 5 <= Len(s) /\ s[i + 1] = "u"
                      /\ \A k \in (i + 2)..(i + 5) : s[k] \in HexDigits
              THEN ScanString(s, i + 6, Append(acc, Rune(CodePoint(SubSeq(s, i + 2, i + 5)))))
              ELSE Fail
    ELSE IF IsSpace(s[i]) /\ s[i] # " " THEN Fail      \* a raw control character
    ELSE ScanString(s, i + 1, Append(acc, s[i]))

RECURSIVE ScanDigits(_, _)
ScanDigits(s, i) == IF i <= Len(s) /\ s[i] \in Digits THEN ScanDigits(s, i + 1) ELSE i

\* -? (0 | [1-9][0-9]*) (. [0-9]+)?
ScanNumber(s, i) ==
    LET d == IF i <= Len(s) /\ s[i] = "-" THEN i + 1 ELSE i
        e == IF d <= Len(s) /\ s[d] = "0" THEN d + 1 ELSE ScanDigits(s, d)
        f == IF e <= Len(s) /\ s[e] = "." THEN ScanDigits(s, e + 1) ELSE e
    IN  IF e = d \/ (f # e /\ f = e + 1) THEN Fail ELSE Okay("number", SubSeq(s, i, f - 1), f)

RECURSIVE ScanValue(_, _), ScanMembers(_, _, _), ScanElements(_, _)

\* one JSON value at i
ScanValue(s, i) ==
    IF i > Len(s) THEN Fail
    ELSE CASE s[i] = "\"" -> ScanString(s, i + 1, <<>>)
           [] s[i] = "{" ->
                 LET j == SkipSpace(s, i + 1)
                 IN  IF j <= Len(s) /\ s[j] = "}" THEN Okay("object", <<>>, j + 1)
                     ELSE ScanMembers(s, j, <<>>)
           [] s[i] = "[" ->
                 LET j == SkipSpace(s, i + 1)
                 IN  IF j <= Len(s) /\ s[j] = "]" THEN Okay("array", <<>>, j + 1)
                     ELSE ScanElements(s, j)
           [] s[i] = "t" ->
                 IF StartsAt(s, i, <<"t", "r", "u", "e">>) THEN Okay("bool", TRUE, i + 4) ELSE Fail
           [] s[i] = "f" ->
                 IF StartsAt(s, i, <<"f", "a", "l", "s", "e">>) THEN Okay("bool", FALSE, i + 5) ELSE Fail
           [] s[i] = "n" ->
                 IF StartsAt(s, i, <<"n", "u", "l", "l">>) THEN Okay("null", <<>>, i + 4) ELSE Fail
           [] s[i] = "-" \/ s[i] \in Digits -> ScanNumber(s, i)
           [] OTHER -> Fail

\* the members of an object from its first key: "key" : value (, "key" : value)* }
ScanMembers(s, i, acc) ==
    IF i > Len(s) \/ s[i] # "\"" THEN Fail
    ELSE LET k == ScanString(s, i + 1, <<>>)
         IN  IF ~k.ok THEN Fail
             ELSE LET c == SkipSpace(s, k.next)
                  IN  IF c > Len(s) \/ s[c] # ":" THEN Fail
                      ELSE LET v == ScanValue(s, SkipSpace(s, c + 1))
                           IN  IF ~v.ok THEN Fail
                               ELSE LET e   == SkipSpace(s, v.next)
                                        all == Append(acc, [key |-> k.val, kind |-> v.kind, val |-> v.val])
                                    IN  IF e > Len(s) THEN Fail
                                        ELSE IF s[e] = "}" THEN Okay("object", all, e + 1)
                                        ELSE IF s[e] = "," THEN ScanMembers(s, SkipSpace(s, e + 1), all)
                                        ELSE Fail

\* the elements of an array from its first one; their values are not kept
ScanElements(s, i) ==
    LET v == ScanValue(s, i)
    IN  IF ~v.ok THEN Fail
        ELSE LET e == SkipSpace(s, v.next)
             IN  IF e > Len(s) THEN Fail
                 ELSE IF s[e] = "]" THEN Okay("array", <<>>, e + 1)
                 ELSE IF s[e] = "," THEN ScanElements(s, SkipSpace(s, e + 1))
                 ELSE Fail

ToLower(key) == [i \in 1..Len(key) |-> Lower(key[i])]

\* the struct tags of model.CommandResponse
TagCommand == <<"c", "o", "m", "m", "a", "n", "d">>
TagDetails == <<"d", "e", "t", "a", "i", "l", "s">>
TagShowDetails == <<"s", "h", "o", "w", "_", "d", "e", "t", "a", "i", "l", "s">>

ZeroResponse == [Command |-> <<>>, Details |-> <<>>, ShowDetails |-> FALSE]

\* one member stored into the struct: the field whose tag matches the key,
\* letters compared without regard to case; null leaves the field alone; a
\* value of another type leaves it alone and is an UnmarshalTypeError
StoreMember(st, m) ==
    LET key   == ToLower(m.key)
        field == CASE key = TagCommand -> "Command"
                   [] key = TagDetails -> "Details"
                   [] key = TagShowDetails -> "ShowDetails"
                   [] OTHER -> ""
        want  == IF field = "ShowDetails" THEN "bool" ELSE "string"
    IN  IF field = "" \/ m.kind = "null" THEN st
        ELSE IF m.kind # want THEN [st EXCEPT !.typeErr = TRUE]
        ELSE [st EXCEPT !.val = [@ EXCEPT ![field] = m.val]]

RECURSIVE StoreMembers(_, _)
StoreMembers(st, ms) ==
    IF ms = <<>> THEN st ELSE StoreMembers(StoreMember(st, Head(ms)), Tail(ms))

ErrSyntax == "json syntax"             \* *json.SyntaxError
ErrType == "json type"                 \* *json.UnmarshalTypeError

\* json.Unmarshal(data, &response): the error, and response as it is left
Unmarshal(data) ==
    LET v == ScanValue(data, SkipSpace(data, 1))
    IN  IF ~v.ok \/ SkipSpace(data, v.next) # Len(data) + 1
        THEN [err |-> ErrSyntax, val |-> ZeroResponse]
        ELSE IF v.kind # "object"
        THEN [err |-> ErrType, val |-> ZeroResponse]
        ELSE LET st == StoreMembers([val |-> ZeroResponse, typeErr |-> FALSE], v.val)
             IN  [err |-> IF st.typeErr THEN ErrType ELSE NoError, val |-> st.val]

----------------------------------------------------------------------------
(* parseAndValidateResponse: internal/llm/client.go *)

ErrNoJSON == "could not find valid JSON in response"
ErrUnmarshal == "error unmarshaling JSON"
ErrEmptyCommand == "command is empty in response"

\* strings.Index and strings.LastIndex of a one-character substring, counted
\* from 1; 0 where Go returns -1
Index(s, c) ==
    IF \E i \in 1..Len(s) : s[i] = c
    THEN CHOOSE i \in 1..Len(s) : s[i] = c /\ \A j \in 1..(i - 1) : s[j] # c
    ELSE 0

LastIndex(s, c) ==
    IF \E i \in 1..Len(s) : s[i] = c
    THEN CHOOSE i \in 1..Len(s) : s[i] = c /\ \A j \in (i + 1)..Len(s) : s[j] # c
    ELSE 0

\* parseAndValidateResponse ending the span at the first '}' instead of the last
ParseToFirstClose(text) ==
    LET startIdx == Index(text, "{")
        endIdx   == Index(text, "}")
    IN  IF startIdx = 0 \/ endIdx = 0 \/ endIdx <= startIdx
        THEN [resp |-> Nil, err |-> ErrNoJSON]
        ELSE LET jsonStr == SubSeq(text, startIdx, endIdx)
                 dec     == Unmarshal(jsonStr)
             IN  IF dec.err # NoError THEN [resp |-> Nil, err |-> ErrUnmarshal]
                 ELSE IF dec.val.Command = <<>> THEN [resp |-> Nil, err |-> ErrEmptyCommand]
                 ELSE [resp |-> Ref(dec.val), err |-> NoError]

\* parseAndValidateResponse handing back what was decoded when decoding failed
ParseKeepingPartial(text) ==
    LET startIdx == Index(text, "{")
        endIdx   == LastIndex(text, "}")
    IN  IF startIdx = 0 \/ endIdx = 0 \/ endIdx <= startIdx
        THEN [resp |-> Nil, err |-> ErrNoJSON]
        ELSE LET jsonStr == SubSeq(text, startIdx, endIdx)
                 dec     == Unmarshal(jsonStr)
             IN  IF dec.err # NoError THEN [resp |-> Ref(dec.val), err |-> ErrUnmarshal]
                 ELSE IF dec.val.Command = <<>> THEN [resp |-> Nil, err |-> ErrEmptyCommand]
                 ELSE [resp |-> Ref(dec.val), err |-> NoError]

parseAndValidateResponse(text) ==
    LET startIdx == Index(text, "{")
        endIdx   == LastIndex(text, "}")
    IN  IF startIdx = 0 \/ endIdx = 0 \/ endIdx <= startIdx
        THEN [resp |-> Nil, err |-> ErrNoJSON]
        ELSE LET jsonStr == SubSeq(text, startIdx, endIdx)
                 dec     == Unmarshal(jsonStr)
             IN  IF dec.err # NoError THEN [resp |-> Nil, err |-> ErrUnmarshal]
                 ELSE IF dec.val.Command = <<>> THEN [resp |-> Nil, err |-> ErrEmptyCommand]
                 ELSE [resp |-> Ref(dec.val), err |-> NoError]

----------------------------------------------------------------------------
(* The replies the parser is given *)

RECURSIVE EscapeText(_)
EscapeText(t) ==
    IF t = <<>> THEN <<>>
    ELSE (IF Head(t) \in {"\"", "\\"} THEN <<"\\", Head(t)>>
          ELSE IF Head(t) = "\n" THEN <<"\\", "n">>
          ELSE <<Head(t)>>) \o EscapeText(Tail(t))

\* the JSON string literal of a text, and the literal of a boolean
Quote(t) == <<"\"">> \o EscapeText(t) \o <<"\"">>
BoolText(b) == IF b THEN <<"t", "r", "u", "e">> ELSE <<"f", "a", "l", "s", "e">>

\* "key": value
Member(tag, value) == Quote(tag) \o <<":", " ">> \o value

\* the object {"command": c, "details": d, "show_details": b}, the optional
\* keys left out when hasD, hasB say so
Payload(c, d, b, hasD, hasB) ==
    <<"{">> \o Member(TagCommand, Quote(c))
            \o (IF hasD THEN <<",", " ">> \o Member(TagDetails, Quote(d)) ELSE <<>>)
            \o (IF hasB THEN <<",", " ">> \o Member(TagShowDetails, BoolText(b)) ELSE <<>>)
            \o <<"}">>

Commands == {<<"l", "s">>, <<" ">>, <<"e", " ", "\"", "}", "\"">>}
DetailTexts == {<<>>, <<"d">>}
Before == {<<>>, <<"o", "k", ":", " ">>, <<"{">>, <<"}", " ">>}
After == {<<>>, <<"\n", ".">>, <<"}">>, <<" ", "{">>}

\* a payload with a non-empty command, in its surrounding text
ValidCases ==
    {[text |-> pre \o Payload(c, d, b, hasD, hasB) \o suf,
      pre |-> pre, suf |-> suf,
      want |-> [Command |-> c,
                Details |-> IF hasD THEN d ELSE <<>>,
                ShowDetails |-> IF hasB THEN b ELSE FALSE]] :
        pre \in Before, suf \in After, c \in Commands, d \in DetailTexts,
        b \in BOOLEAN, hasD \in BOOLEAN, hasB \in BOOLEAN}

Lead == {<<>>, <<"o", "k", ":", " ">>}

\* objects whose command is missing, null or the empty string
NoCommandPayloads ==
    {<<"{", "}">>,
     <<"{">> \o Member(TagDetails, Quote(<<"d">>)) \o <<"}">>,
     <<"{">> \o Member(TagCommand, Quote(<<>>)) \o <<"}">>,
     <<"{">> \o Member(TagCommand, <<"n", "u", "l", "l">>) \o <<"}">>}

\* objects whose command is nothing but white space
BlankCommandPayloads ==
    {<<"{">> \o Member(TagCommand, Quote(<<" ">>)) \o <<"}">>,
     <<"{">> \o Member(TagCommand, Quote(<<" ", "\n">>)) \o <<"}">>}

\* spans that are not JSON: no colon, an unquoted key, a trailing comma, two
\* objects in a row
BrokenPayloads ==
    {<<"{">> \o Quote(TagCommand) \o <<" ">> \o Quote(<<"l", "s">>) \o <<"}">>,
     <<"{">> \o TagCommand \o <<":">> \o Quote(<<"l", "s">>) \o <<"}">>,
     <<"{">> \o Member(TagCommand, Quote(<<"l", "s">>)) \o <<",", "}">>,
     Payload(<<"l", "s">>, <<>>, FALSE, FALSE, FALSE) \o <<" ">>
        \o Payload(<<"l", "s">>, <<>>, FALSE, FALSE, FALSE)}

\* objects that are JSON but give a field a value of the wrong type, the
\* command already decoded when the decoder meets it
MistypedPayloads ==
    {<<"{">> \o Member(TagCommand, <<"t", "r", "u", "e">>) \o <<"}">>,
     <<"{">> \o Member(TagCommand, Quote(<<"l", "s">>)) \o <<",", " ">>
             \o Member(TagShowDetails, Quote(<<"y">>)) \o <<"}">>}

\* a payload cut off at either end
CutPayloads ==
    {<<"{">> \o Member(TagCommand, Quote(<<"l", "s">>)),
     Member(TagCommand, Quote(<<"l", "s">>)) \o <<"}">>}

\* every text of up to MaxShort characters over { } x
MaxShort == 3
ShortTexts == UNION {[1..n -> {"{", "}", "x"}] : n \in 0..MaxShort}

In(pre, payloads) == {l \o p : l \in pre, p \in payloads}

Replies ==
    {v.text : v \in ValidCases}
        \cup In(Lead, NoCommandPayloads \cup BlankCommandPayloads \cup BrokenPayloads
                         \cup MistypedPayloads \cup CutPayloads)
        \cup ShortTexts

----------------------------------------------------------------------------
(* The parser's steps: GenerateCommand collects the reply's text blocks into
   responseText and hands it to parseAndValidateResponse *)

Receive(text) ==
    /\ ppc = "idle"
    /\ responseText' = text
    /\ ppc' = "received"
    /\ UNCHANGED parsed

Parse ==
    /\ ppc = "received"
    /\ parsed' = parseAndValidateResponse(responseText)
    /\ ppc' = "parsed"
    /\ UNCHANGED responseText

----------------------------------------------------------------------------
(* buildAssistantResponse: internal/llm/client.go.  json.Marshal of a
   CommandResponse writes the three fields in the order of the struct, with
   no white space; it cannot fail on a struct of two strings and a bool, so
   that the Sprintf branch is never taken. *)

\* a string as json.Marshal writes it between the quotes: the quote, the
\* backslash and the control characters escaped, and < > & written \u00XX
RECURSIVE MarshalText(_)
MarshalText(t) ==
    IF t = <<>> THEN <<>>
    ELSE LET c == Head(t)
         IN  (CASE c \in {"\"", "\\"} -> <<"\\", c>>
                [] c = "\n" -> <<"\\", "n">>
                [] c = "\r" -> <<"\\", "r">>
                [] c = "\t" -> <<"\\", "t">>
                [] c = "<" -> <<"\\", "u", "0", "0", "3", "c">>
                [] c = ">" -> <<"\\", "u", "0", "0", "3", "e">>
                [] c = "&" -> <<"\\", "u", "0", "0", "2", "6">>
                [] OTHER -> <<c>>) \o MarshalText(Tail(t))

MarshalString(t) == <<"\"">> \o MarshalText(t) \o <<"\"">>

\* the entry's fields between quotes as they are, nothing escaped
buildUnescaped(entry) ==
    <<"{">> \o MarshalString(TagCommand) \o <<":", "\"">> \o entry.command \o <<"\"", ",">>
            \o MarshalString(TagDetails) \o <<":", "\"">> \o entry.details \o <<"\"", ",">>
            \o MarshalString(TagShowDetails) \o <<":">> \o BoolText(entry.show_details)
            \o <<"}">>

buildAssistantResponse(entry) ==
    <<"{">> \o MarshalString(TagCommand) \o <<":">> \o MarshalString(entry.command) \o <<",">>
            \o MarshalString(TagDetails) \o <<":">> \o MarshalString(entry.details) \o <<",">>
            \o MarshalString(TagShowDetails) \o <<":">> \o BoolText(entry.show_details)
            \o <<"}">>

\* the text built from an entry of the table is handed to the parser
Replay(entry) ==
    /\ ppc = "idle"
    /\ responseText' = buildAssistantResponse(entry)
    /\ ppc' = "received"
    /\ UNCHANGED parsed

----------------------------------------------------------------------------
(* The command line: tell prompt, tell history favorite, tell history delete
   (main.go).  An invocation is a process; it runs its statements against the
   database one at a time, and invocations of different processes interleave
   between statements.  events is what the invocation has done so far, in
   order: the parent lookup, the request sent to the model, the row inserted,
   the line written to stderr or stdout.  A process that has exited is idle
   again; done keeps the record of the invocation that exited last. *)

Procs == {"a", "b"}

ErrGenerating == "error generating command"     \* Messages.New returned an error
ErrParsing == "error parsing response"          \* parseAndValidateResponse did

\* an error text that is empty for a response that could not be parsed
ErrorTextBlank(err) ==
    CASE err = NoError -> <<>>
      [] err = ErrGenerating -> <<"g", "e", "n">>
      [] OTHER -> <<>>

\* genErr.Error(), the text stored as error_message
ErrorText(err) ==
    CASE err = NoError -> <<>>
      [] err = ErrGenerating -> <<"g", "e", "n">>
      [] OTHER -> <<"p", "a", "r", "s", "e">>

LLMModel == <<"m">>                             \* cfg.LLMModel

\* what Messages.New returns: an error, or a message with text and token counts
ReplyTexts ==
    {Payload(<<"l", "s">>, <<"d">>, TRUE, TRUE, TRUE),
     Payload(<<" ">>, <<>>, FALSE, FALSE, FALSE),
     <<"n", "o">>}
Messages ==
    {[apiErr |-> TRUE, Content |-> <<>>, Usage |-> [InputTokens |-> 0, OutputTokens |-> 0]]}
        \cup {[apiErr |-> FALSE, Content |-> t, Usage |-> [InputTokens |-> 1, OutputTokens |-> 2]] :
                  t \in ReplyTexts}

\* the usage GenerateCommand and GenerateCommandContinuation build
UsageOf(message) ==
    [Model        |-> LLMModel,
     InputTokens  |-> message.Usage.OutputTokens,
     OutputTokens |-> message.Usage.InputTokens]

\* (response, usage, err) of GenerateCommand and of GenerateCommandContinuation,
\* given what Messages.New returned
Generate(message) ==
    IF message.apiErr
    THEN [response |-> Nil, usage |-> Nil, err |-> ErrGenerating]
    ELSE LET res == parseAndValidateResponse(message.Content)
         IN  IF res.err # NoError
             THEN [response |-> Nil, usage |-> Ref(UsageOf(message)), err |-> ErrParsing]
             ELSE [response |-> res.resp, usage |-> Ref(UsageOf(message)), err |-> NoError]

\* the process-local variables of an invocation
Idle ==
    [pc            |-> "idle",      \* idle, opened, lookedUp, generated, read, exited
     cmd           |-> "",          \* prompt, favorite, delete
     prompt        |-> <<>>,
     continueFlag  |-> FALSE,
     id            |-> 0,
     db            |-> FALSE,       \* db != nil
     previousEntry |-> Nil,
     prevErr       |-> NoError,
     parentID      |-> NullInt64,
     response      |-> Nil,
     usage         |-> Nil,
     genErr        |-> NoError,
     entry         |-> Nil,
     message       |-> Nil,         \* what Messages.New returned
     parentThere   |-> TRUE,        \* the INSERT found the row of parentID in the table
     rowID         |-> 0,           \* what AddHistoryEntry returned
     dbErr         |-> NoError,
     replaced      |-> Nil,         \* the favorite flag SetFavorite has overwritten
     shown         |-> Nil,         \* the error or the command printed at the end
     events        |-> <<>>,
     exit          |-> -1]          \* the exit status, -1 while running

\* strings.Join(args, " ")
RECURSIVE Join(_)
Join(args) ==
    IF args = <<>> THEN <<>>
    ELSE IF Len(args) = 1 THEN args[1]
    ELSE args[1] \o <<" ">> \o Join(Tail(args))

\* argument lists cobra.MinimumNArgs(1) accepts: one word, two words, one
\* empty argument
ArgLists == {<<(<<"p">>)>>, <<(<<"a">>), (<<"b">>)>>, <<(<<>>)>>}
\* the argument list of the invocations that run side by side
OneWord == {<<(<<"p">>)>>}

\* config.Load and the API key check
ConfigOutcomes == {"ok", "load error", "no api key"}
\* the ids history favorite and history delete are given: that of the first
\* entry, and one no entry has
HistoryIds == {1, MaxId + 1}

\* the events of an invocation
EvLookup == [ev |-> "lookup"]
EvRequest(kind, previousEntry) == [ev |-> "request", kind |-> kind, previous |-> previousEntry]
EvInsert(id) == [ev |-> "insert", id |-> id]
EvStderr == [ev |-> "stderr"]
EvStdout == [ev |-> "stdout"]

\* the prompt invocations that are running
Pending == {q \in Procs : inv[q].cmd = "prompt"}

\* the invocation of process p goes on as rec, or has ended as rec
Becomes(p, rec) ==
    IF rec.pc = "exited"
    THEN inv' = [inv EXCEPT ![p] = Idle] /\ done' = rec
    ELSE inv' = [inv EXCEPT ![p] = rec] /\ done' = done

\* initializeDatabase: NewDB, then InitSchema
initializeDatabase(cols, fails) ==
    IF fails THEN [db |-> FALSE, cols |-> cols] ELSE [db |-> TRUE, cols |-> ExecSchema(cols)]

\* tell prompt [--continue] args, up to and including initializeDatabase; a
\* configuration that cannot be loaded or has no API key ends the invocation
\* with status 1 before the database is opened
StartPrompt(p, args, continueFlag, fails, cfg) ==
    /\ inv[p].pc = "idle"
    /\ runs < MaxRuns
    /\ lastRowID + Cardinality(Pending) < MaxId
    /\ runs' = runs + 1
    /\ LET open == initializeDatabase(tableCols, fails)
           me   == [Idle EXCEPT !.cmd = "prompt", !.prompt = Join(args),
                                !.continueFlag = continueFlag]
       IN  IF cfg # "ok"
           THEN /\ tableCols' = tableCols
                /\ Becomes(p, [me EXCEPT !.pc = "exited", !.exit = 1, !.events = <<EvStderr>>])
           ELSE /\ tableCols' = open.cols
                /\ Becomes(p, [me EXCEPT !.pc = "opened", !.db = open.db])
    /\ UNCHANGED <<rows, lastRowID, now>>

\* parentID of a continuation: Valid, with the id of the entry found
ParentNext(previousEntry) == ValidInt64(Deref(previousEntry).id + 1)

ParentOf(previousEntry) == ValidInt64(Deref(previousEntry).id)

\* LookupParent going on to a fresh generation when the lookup found nothing
LookupParentUnchecked(p) ==
    /\ inv[p].pc = "opened" /\ inv[p].cmd = "prompt"
    /\ inv[p].continueFlag /\ inv[p].db
    /\ \E res \in QueryMostRecent(tableCols, rows) :
          Becomes(p, IF res.err # NoError
                    THEN [inv[p] EXCEPT !.continueFlag = FALSE,
                                   !.prevErr = res.err,
                                   !.events = Append(@, EvLookup)]
                    ELSE [inv[p] EXCEPT !.pc = "lookedUp",
                                   !.previousEntry = res.ret,
                                   !.events = Append(@, EvLookup)])
    /\ UNCHANGED <<dbVars, runs>>

\* if continueFlag && db != nil: GetMostRecentSuccessfulCommand; an error is
\* printed and ends the invocation with status 1
LookupParent(p) ==
    /\ inv[p].pc = "opened" /\ inv[p].cmd = "prompt"
    /\ inv[p].continueFlag /\ inv[p].db
    /\ \E res \in QueryMostRecent(tableCols, rows) :
          Becomes(p, IF res.err # NoError
                    THEN [inv[p] EXCEPT !.pc = "exited", !.exit = 1,
                                   !.prevErr = res.err,
                                   !.events = @ \o <<EvLookup, EvStderr>>]
                    ELSE [inv[p] EXCEPT !.pc = "lookedUp",
                                   !.previousEntry = res.ret,
                                   !.events = Append(@, EvLookup)])
    /\ UNCHANGED <<dbVars, runs>>

\* the call of the model: GenerateCommandContinuation after a lookup, with
\* parentID set from the entry found; GenerateCommand otherwise
CallLLM(p, message) ==
    /\ inv[p].cmd = "prompt"
    /\ \/ inv[p].pc = "lookedUp"
       \/ inv[p].pc = "opened" /\ ~(inv[p].continueFlag /\ inv[p].db)
    /\ \E gen \in {Generate(message)} :
       LET continuation == inv[p].pc = "lookedUp"
       IN  Becomes(p, [inv[p] EXCEPT !.pc = "generated",
                               !.message = Ref(message),
                               !.response = gen.response,
                               !.usage = gen.usage,
                               !.genErr = gen.err,
                               !.parentID = IF continuation
                                            THEN ParentOf(inv[p].previousEntry)
                                            ELSE NullInt64,
                               !.events = Append(@,
                                   IF continuation
                                   THEN EvRequest("continuation", inv[p].previousEntry)
                                   ELSE EvRequest("fresh", Nil))])
    /\ UNCHANGED <<dbVars, runs>>

\* Surface reporting the error of the history insert when there is one
SurfaceStorageError(genErr, response, dbErr) ==
    IF dbErr # NoError
    THEN [exit |-> 1, shown |-> Ref([stderr |-> dbErr]), ev |-> EvStderr]
    ELSE IF genErr # NoError
    THEN [exit |-> 1, shown |-> Ref([stderr |-> genErr]), ev |-> EvStderr]
    ELSE [exit |-> 0, shown |-> Ref([stdout |-> Deref(response).Command]), ev |-> EvStdout]

\* the end of promptCmd.Run: the generation error is printed and the status
\* is 1, or the command is printed; dbErr has only been logged
Surface(genErr, response, dbErr) ==
    IF genErr # NoError
    THEN [exit |-> 1, shown |-> Ref([stderr |-> genErr]), ev |-> EvStderr]
    ELSE [exit |-> 0, shown |-> Ref([stdout |-> Deref(response).Command]), ev |-> EvStdout]

\* if db != nil: AddHistoryEntry, its error only logged; then the generation
\* error is printed and the status is 1, or the command is printed
LogAndFinish(p, ioErr, elapsed) ==
    /\ inv[p].pc = "generated"
    /\ LET me  == inv[p]
           res == IF me.db
                  THEN ExecInsert(tableCols, rows, lastRowID, now + elapsed, me.prompt,
                                  me.response, me.usage, ErrorText(me.genErr), me.parentID, ioErr)
                  ELSE [rows |-> rows, seq |-> lastRowID, err |-> NoError, id |-> 0]
           logged == IF me.db /\ res.err = NoError THEN <<EvInsert(res.id)>> ELSE <<>>
           out == Surface(me.genErr, me.response, res.err)
       IN  /\ rows' = res.rows
           /\ lastRowID' = res.seq
           /\ now' = IF me.db /\ res.err = NoError THEN now + elapsed ELSE now
           /\ Becomes(p, [inv[p] EXCEPT !.pc = "exited",
                                   !.rowID = res.id,
                                   !.dbErr = res.err,
                                   !.parentThere = me.parentID.Valid
                                                      => \E r \in rows : r.id = me.parentID.Int64,
                                   !.shown = out.shown,
                                   !.exit = out.exit,
                                   !.events = @ \o logged \o <<out.ev>>])
    /\ UNCHANGED <<tableCols, runs>>

\* tell history favorite id / tell history delete id, up to and including
\* initializeDatabase; its failing ends the invocation with status 1
StartHistory(p, cmd, id, fails) ==
    /\ inv[p].pc = "idle"
    /\ runs < MaxRuns
    /\ runs' = runs + 1
    /\ LET open == initializeDatabase(tableCols, fails)
       IN  /\ tableCols' = open.cols
           /\ Becomes(p, IF open.db
                         THEN [Idle EXCEPT !.pc = "opened", !.cmd = cmd, !.id = id, !.db = TRUE]
                         ELSE [Idle EXCEPT !.pc = "exited", !.cmd = cmd, !.id = id, !.exit = 1,
                                           !.events = <<EvStderr>>])
    /\ UNCHANGED <<rows, lastRowID, now>>

\* history favorite: GetHistoryEntry(id)
FavoriteRead(p) ==
    /\ inv[p].pc = "opened" /\ inv[p].cmd = "favorite"
    /\ LET res == QueryByID(tableCols, rows, inv[p].id)
       IN  Becomes(p, IF res.err # NoError
                     THEN [inv[p] EXCEPT !.pc = "exited", !.exit = 1, !.dbErr = res.err,
                                    !.events = Append(@, EvStderr)]
                     ELSE [inv[p] EXCEPT !.pc = "read", !.entry = res.ret])
    /\ UNCHANGED <<dbVars, runs>>

\* history favorite: SetFavorite(id, !entry.Favorite)
FavoriteWrite(p) ==
    /\ inv[p].pc = "read" /\ inv[p].cmd = "favorite"
    /\ LET newStatus == ~Deref(inv[p].entry).favorite
           res == ExecSetFavorite(tableCols, rows, inv[p].id, newStatus)
       IN  /\ rows' = res.rows
           /\ Becomes(p, [inv[p] EXCEPT !.pc = "exited", !.dbErr = res.err,
                                   !.replaced = IF \E r \in rows : r.id = inv[p].id
                                                THEN Ref((CHOOSE r \in rows : r.id = inv[p].id).favorite)
                                                ELSE Nil,
                                   !.exit = IF res.err # NoError THEN 1 ELSE 0,
                                   !.events = Append(@, IF res.err # NoError
                                                        THEN EvStderr ELSE EvStdout)])
    /\ UNCHANGED <<tableCols, lastRowID, now, runs>>

\* history delete: DeleteHistoryEntry(id)
DeleteRun(p) ==
    /\ inv[p].pc = "opened" /\ inv[p].cmd = "delete"
    /\ LET res == ExecDelete(tableCols, rows, inv[p].id)
       IN  /\ rows' = res.rows
           /\ Becomes(p, [inv[p] EXCEPT !.pc = "exited", !.dbErr = res.err,
                                   !.exit = IF res.err # NoError THEN 1 ELSE 0,
                                   !.events = Append(@, IF res.err # NoError
                                                        THEN EvStderr ELSE EvStdout)])
    /\ UNCHANGED <<tableCols, lastRowID, now, runs>>

----------------------------------------------------------------------------
(* Specifications *)

InitStore ==
    /\ tableCols \in {{}, PersistedSchema}
    /\ rows = {}
    /\ lastRowID = 0
    /\ now = 0
    /\ last = NoCall
    /\ justAdded = Nil
    /\ issued = <<>>

InitCli == inv = [p \in Procs |-> Idle] /\ done = Idle /\ runs = 0

InitParser ==
    /\ responseText = <<>>
    /\ parsed = [resp |-> Nil, err |-> NoError]
    /\ ppc = "idle"

Init == InitStore /\ InitParser /\ InitCli

Next ==
    \/ InitSchema /\ UNCHANGED <<parserVars, cliVars>>
    \/ \E a \in AddArgs, ioErr \in BOOLEAN, elapsed \in Elapsed :
          AddHistoryEntry(a.prompt, a.response, a.usage, a.errorMsg, a.parentID, ioErr, elapsed)
             /\ UNCHANGED <<parserVars, cliVars>>
    \/ \E id \in Ids : GetHistoryEntry(id) /\ UNCHANGED <<parserVars, cliVars>>
    \/ GetMostRecentSuccessfulCommand /\ UNCHANGED <<parserVars, cliVars>>
    \/ \E limit \in Limits, onlyFavorites \in BOOLEAN :
          GetHistoryEntries(limit, 0, onlyFavorites, <<>>) /\ UNCHANGED <<parserVars, cliVars>>
    \/ \E id \in Ids, favorite \in BOOLEAN : SetFavorite(id, favorite) /\ UNCHANGED <<parserVars, cliVars>>
    \/ \E id \in Ids : DeleteHistoryEntry(id) /\ UNCHANGED <<parserVars, cliVars>>

Spec == Init /\ [][Next]_vars

NextParser ==
    \/ \E text \in Replies : Receive(text) /\ UNCHANGED <<storeVars, cliVars>>
    \/ Parse /\ UNCHANGED <<storeVars, cliVars>>

ParserSpec == Init /\ [][NextParser]_vars

(* The continuation round trip: the table holds one successful entry, the
   assistant turn is built from it and parsed. *)
ReplayCommands ==
    {<<"l", "s">>, <<" ">>, <<"e", " ", "\"", "}", "\"">>, <<"a", "<", "b", ">", "&", "1">>,
     <<"\\", "n">>, <<"a", "\n", "\t", "\r">>, <<"{">>, <<"}">>,
     <<"\\", "u", "0", "0", "3", "c">>, <<"\"">>}
ReplayDetails == {<<>>, <<"d">>, <<"\"", ",">>, <<"<", "\\">>, <<"}", "\n">>}

ReplayEntries ==
    {NewRow(1, 0, <<"p">>, Ref([Command |-> c, Details |-> d, ShowDetails |-> b]),
            Ref(SomeUsage), <<>>, NullInt64) :
        c \in ReplayCommands, d \in ReplayDetails, b \in BOOLEAN}

InitReplay ==
    /\ tableCols = PersistedSchema
    /\ rows \in {{e} : e \in ReplayEntries}
    /\ lastRowID = 1
    /\ now = 0
    /\ issued = <<1>>
    /\ last = NoCall
    /\ justAdded = Nil
    /\ InitParser
    /\ InitCli

NextReplay ==
    \/ \E entry \in rows : Replay(entry) /\ UNCHANGED <<storeVars, cliVars>>
    \/ Parse /\ UNCHANGED <<storeVars, cliVars>>

ReplaySpec == InitReplay /\ [][NextReplay]_vars

\* The tables the searches run on: the entries of up to MaxId prompts, some
\* of them made favorites, with prompts and commands that differ in letter
\* case and hold the characters LIKE gives a meaning to.
SearchArgs ==
    {[prompt |-> <<"a", "b">>, response |-> Ref(OkResponse), usage |-> Ref(SomeUsage),
      errorMsg |-> <<>>],
     [prompt |-> <<"A", "B">>, response |-> Nil, usage |-> Nil,
      errorMsg |-> <<"e">>],
     [prompt |-> <<"c">>,
      response |-> Ref([Command |-> <<"x", "_">>, Details |-> <<>>, ShowDetails |-> FALSE]),
      usage |-> Ref(SomeUsage), errorMsg |-> <<>>]}

SearchTerms == {<<>>, <<"a">>, <<"_">>, <<"%">>, <<"\\">>, <<"q">>}
SearchLimits == {0, 1, MaxId + 1}
Offsets == {0, 1}

\* the tables n calls of AddHistoryEntry, each followed or not by
\* SetFavorite(id, true), leave behind, with the time of the last INSERT
RECURSIVE TablesAfter(_)
TablesAfter(n) ==
    IF n = 0 THEN {[rows |-> {}, now |-> 0]}
    ELSE {LET ins == ExecInsert(PersistedSchema, t.rows, n - 1, t.now + e, a.prompt,
                                a.response, a.usage, a.errorMsg, NullInt64, FALSE)
          IN  [rows |-> IF f THEN ExecSetFavorite(PersistedSchema, ins.rows, ins.id, TRUE).rows
                             ELSE ins.rows,
               now  |-> t.now + e] :
             t \in TablesAfter(n - 1), a \in SearchArgs, e \in Elapsed, f \in BOOLEAN}

InitSearch ==
    /\ \/ tableCols = schema /\ rows = {} /\ lastRowID = 0 /\ now = 0
       \/ /\ tableCols = PersistedSchema
          /\ \E n \in 0..MaxId : \E t \in TablesAfter(n) :
                rows = t.rows /\ lastRowID = n /\ now = t.now
    /\ issued = [i \in 1..lastRowID |-> i]
    /\ last = NoCall
    /\ justAdded = Nil
    /\ InitParser
    /\ InitCli

\* the argument lists of tell history: no query, or one
HistoryArgs == {<<>>} \cup {<<t>> : t \in SearchTerms}

\* tell history [query] --limit limitFlag [--favorites]: last.ret is the list
\* of entries it prints
historyCmdRun(args, limitFlag, favoriteFlag, fails) ==
    LET query == IF Len(args) > 0 THEN args[1] ELSE <<>>
        open == initializeDatabase(tableCols, fails)
        call == [args |-> args, limitFlag |-> limitFlag, favoriteFlag |-> favoriteFlag]
    IN  /\ tableCols' = open.cols
        /\ IF ~open.db
           THEN last' = Call("history", call, ErrStorage, <<>>)
           ELSE \E res \in (IF query # <<>>
                            THEN QuerySearch(open.cols, rows, query, limitFlag)
                            ELSE QueryEntries(open.cols, rows, limitFlag, 0, favoriteFlag, <<>>)) :
                   last' = Call("history", call, res.err, res.ret)
        /\ justAdded' = Added
        /\ UNCHANGED <<rows, lastRowID, now, issued>>

\* one query on each table: a query leaves the table as it is, so that a
\* second one would run on the same table
NextSearch ==
    \/ /\ last = NoCall
       /\ \E limit \in SearchLimits, offset \in Offsets, onlyFavorites \in BOOLEAN,
             searchTerm \in SearchTerms :
             GetHistoryEntries(limit, offset, onlyFavorites, searchTerm)
       /\ UNCHANGED <<parserVars, cliVars>>
    \/ /\ last = NoCall
       /\ \E query \in SearchTerms, limit \in SearchLimits : SearchHistory(query, limit)
       /\ UNCHANGED <<parserVars, cliVars>>
    \/ /\ last = NoCall
       /\ \E args \in HistoryArgs, limitFlag \in SearchLimits, favoriteFlag \in BOOLEAN,
             fails \in BOOLEAN :
             historyCmdRun(args, limitFlag, favoriteFlag, fails)
       /\ UNCHANGED <<parserVars, cliVars>>

SearchSpec == InitSearch /\ [][NextSearch]_vars

NextCli ==
    \/ \E p \in Procs, args \in OneWord, continueFlag \in BOOLEAN, fails \in BOOLEAN,
          cfg \in ConfigOutcomes :
          StartPrompt(p, args, continueFlag, fails, cfg) /\ UNCHANGED <<callVars, parserVars>>
    \/ \E p \in Procs : LookupParent(p) /\ UNCHANGED <<callVars, parserVars>>
    \/ \E p \in Procs, message \in Messages :
          CallLLM(p, message) /\ UNCHANGED <<callVars, parserVars>>
    \/ \E p \in Procs, ioErr \in BOOLEAN, elapsed \in Elapsed :
          LogAndFinish(p, ioErr, elapsed) /\ UNCHANGED <<callVars, parserVars>>
    \/ \E p \in Procs, cmd \in {"favorite", "delete"}, id \in HistoryIds, fails \in BOOLEAN :
          StartHistory(p, cmd, id, fails) /\ UNCHANGED <<callVars, parserVars>>
    \/ \E p \in Procs : FavoriteRead(p) /\ UNCHANGED <<callVars, parserVars>>
    \/ \E p \in Procs : FavoriteWrite(p) /\ UNCHANGED <<callVars, parserVars>>
    \/ \E p \in Procs : DeleteRun(p) /\ UNCHANGED <<callVars, parserVars>>

CliSpec == Init /\ [][NextCli]_vars

(* One shell session running tell prompt with every argument list cobra
   accepts for it, one invocation after the other. *)
NextPrompt ==
    \/ \E args \in ArgLists, continueFlag \in BOOLEAN, fails \in BOOLEAN,
          cfg \in ConfigOutcomes :
          StartPrompt("a", args, continueFlag, fails, cfg) /\ UNCHANGED <<callVars, parserVars>>
    \/ LookupParent("a") /\ UNCHANGED <<callVars, parserVars>>
    \/ \E message \in Messages :
          CallLLM("a", message) /\ UNCHANGED <<callVars, parserVars>>
    \/ \E ioErr \in BOOLEAN, elapsed \in Elapsed :
          LogAndFinish("a", ioErr, elapsed) /\ UNCHANGED <<callVars, parserVars>>

PromptSpec == Init /\ [][NextPrompt]_vars

----------------------------------------------------------------------------
(* Properties of parseAndValidateResponse, under ParserSpec *)

Chars(t) == {t[i] : i \in 1..Len(t)}

\* C1, as claimed: for every payload {"command": c, "details": d,
\* "show_details": b} with non-empty c, in any surrounding text, the parser
\* returns command c, details d, show_details b (empty, false for a key left
\* out) and no error.
C1_AnySurroundingText ==
    ppc = "parsed" =>
        \A v \in ValidCases :
            v.text = responseText => parsed = [resp |-> Ref(v.want), err |-> NoError]

\* C1, amended: the same for surrounding text that has no '{' before the
\* payload and no '}' after it.
C1_PayloadReturned ==
    ppc = "parsed" =>
        \A v \in ValidCases :
            (v.text = responseText /\ "{" \notin Chars(v.pre) /\ "}" \notin Chars(v.suf))
                => parsed = [resp |-> Ref(v.want), err |-> NoError]

\* a payload whose command holds a quote and a '}', with text on both sides,
\* has been parsed
C1_Witness ==
    /\ ppc = "parsed"
    /\ \E v \in ValidCases :
          /\ v.text = responseText
          /\ v.pre = <<"}", " ">> /\ v.suf = <<" ", "{">>
          /\ v.want.Command = <<"e", " ", "\"", "}", "\"">>
          /\ v.want.ShowDetails
          /\ parsed.resp = Ref(v.want)

EmptyCommandReplies == In(Lead, NoCommandPayloads \cup BlankCommandPayloads)

\* C2: the parser returns an error and no response whenever the decoded
\* command is missing, is the empty string, or is nothing but white space.
C2_EmptyCommandRejected ==
    (ppc = "parsed" /\ responseText \in EmptyCommandReplies)
        => (parsed.err # NoError /\ parsed.resp = Nil)

\* the text has no '{', no '}', or its last '}' is not after its first '{'
NoBracePair(t) ==
    LET opens  == {i \in 1..Len(t) : t[i] = "{"}
        closes == {i \in 1..Len(t) : t[i] = "}"}
    IN  opens = {} \/ closes = {} \/ \A c \in closes, o \in opens : c < o

NotJSONReplies == In(Lead, BrokenPayloads)

\* C3: for a text with no '{' ... '}' pair, or whose span from the first '{' to
\* the last '}' is not JSON, the parser returns an error and a nil response;
\* and it returns a response only together with a nil error.
C3_NoPartialResult ==
    ppc = "parsed" =>
        /\ (NoBracePair(responseText) \/ responseText \in NotJSONReplies)
              => (parsed.err # NoError /\ parsed.resp = Nil)
        /\ parsed.resp # Nil => parsed.err = NoError

\* a span that has both braces but is not JSON has been refused
C3_Witness ==
    /\ ppc = "parsed"
    /\ responseText \in NotJSONReplies
    /\ ~NoBracePair(responseText)
    /\ parsed = [resp |-> Nil, err |-> ErrUnmarshal]

----------------------------------------------------------------------------
(* Properties of the history store, under Spec *)

HasRow(tbl, id) == \E r \in tbl : r.id = id
RowOf(tbl, id) == CHOOSE r \in tbl : r.id = id

\* C4: on a table created by InitSchema, AddHistoryEntry succeeds for every
\* input whenever the storage is reachable, returns the new id and leaves the
\* table with exactly one more row.
C4_AddSucceeds ==
    (last.op = "AddHistoryEntry" /\ ~last.args.ioErr /\ tableCols = schema)
        => /\ last.err = NoError
           /\ last.ret = lastRowID
           /\ HasRow(rows, last.ret)
           /\ Cardinality(rows) = Cardinality(last.before) + 1

\* C5: GetHistoryEntry(id) right after AddHistoryEntry returned id gives a
\* record whose prompt, command, details, show_details, error_message, model,
\* input_tokens and output_tokens are the arguments (empty, false, zero for a
\* nil response or usage), with favorite false.
C5_RoundTrip ==
    (last.op = "GetHistoryEntry" /\ justAdded # Nil /\ last.args.id = Deref(justAdded).ret)
        => /\ last.err = NoError
           /\ last.ret # Nil
           /\ LET e == Deref(last.ret)
                  a == Deref(justAdded).args
              IN  /\ e.id = last.args.id
                  /\ e.prompt = a.prompt
                  /\ e.error_message = a.errorMsg
                  /\ e.favorite = FALSE
                  /\ IF a.response = Nil
                     THEN e.command = <<>> /\ e.details = <<>> /\ e.show_details = FALSE
                     ELSE /\ e.command = Deref(a.response).Command
                          /\ e.details = Deref(a.response).Details
                          /\ e.show_details = Deref(a.response).ShowDetails
                  /\ IF a.usage = Nil
                     THEN e.model = <<>> /\ e.input_tokens = 0 /\ e.output_tokens = 0
                     ELSE /\ e.model = Deref(a.usage).Model
                          /\ e.input_tokens = Deref(a.usage).InputTokens
                          /\ e.output_tokens = Deref(a.usage).OutputTokens

\* an entry added with a response and a usage has been read back
C5_Witness ==
    /\ last.op = "GetHistoryEntry"
    /\ justAdded # Nil
    /\ last.args.id = Deref(justAdded).ret
    /\ Deref(justAdded).args.response # Nil
    /\ Deref(justAdded).args.usage # Nil
    /\ last.err = NoError

Successful(r) == r.command # <<>> /\ r.error_message = <<>>

\* C6: GetMostRecentSuccessfulCommand returns an entry with the latest
\* timestamp among the rows with a non-empty command and an empty
\* error_message, and fails with not-found when there is no such row.
C6_MostRecentSuccessful ==
    (last.op = "GetMostRecentSuccessfulCommand" /\ Prepares(tableCols, SelectColumns))
        => IF \E r \in rows : Successful(r)
           THEN /\ last.err = NoError
                /\ last.ret # Nil
                /\ Deref(last.ret) \in rows
                /\ Successful(Deref(last.ret))
                /\ \A q \in rows : Successful(q) => q.timestamp <= Deref(last.ret).timestamp
           ELSE last.err = ErrNoPrevious /\ last.ret = Nil

\* C7: GetMostRecentSuccessfulCommand never returns a row whose error_message
\* is non-empty, also when that row has a command and is the newest.
C7_NeverFailedEntry ==
    last.op = "GetMostRecentSuccessfulCommand" =>
        IF last.err = NoError
        THEN last.ret # Nil /\ Deref(last.ret) \in rows /\ Deref(last.ret).error_message = <<>>
        ELSE last.ret = Nil

\* the newest row has a command and an error, and the lookup returned another
C7_Witness ==
    /\ last.op = "GetMostRecentSuccessfulCommand"
    /\ last.err = NoError
    /\ \E r \in rows :
          /\ r.command # <<>> /\ r.error_message # <<>>
          /\ \A q \in rows \ {r} : q.id < r.id /\ q.timestamp < r.timestamp

\* C8: GetMostRecentSuccessfulCommand right after AddHistoryEntry stored a
\* successful entry and returned id i returns the entry with id i, whatever
\* the table held before (here: even when it held successful entries only).
C8_JustStoredIsMostRecent ==
    (/\ last.op = "GetMostRecentSuccessfulCommand"
     /\ justAdded # Nil
     /\ Deref(justAdded).args.response # Nil
     /\ Deref(justAdded).args.errorMsg = <<>>
     /\ \A r \in rows : Successful(r))
        => /\ last.err = NoError
           /\ last.ret # Nil
           /\ Deref(last.ret).id = Deref(justAdded).ret

\* C9: GetHistoryEntry, SetFavorite and DeleteHistoryEntry, called on an
\* existing table with an id that has no row, return 'no history entry found'
\* and leave every row unchanged.
C9_NoRowNotFound ==
    (/\ last.op \in {"GetHistoryEntry", "SetFavorite", "DeleteHistoryEntry"}
     /\ tableCols # {}
     /\ ~HasRow(last.before, last.args.id))
        => (last.err = ErrNotFound /\ rows = last.before)

\* the row continues from an entry that is no longer in the table
Dangling(r) == r.parent_id.Valid /\ ~HasRow(rows, r.parent_id.Int64)

\* C10: DeleteHistoryEntry(p) removes exactly the row with id p, every other
\* row staying as it was, a child with parent_id = p included; GetHistoryEntry
\* and GetHistoryEntries still succeed on a child left dangling.
C10_DeleteOnlyThatRow ==
    /\ (last.op = "DeleteHistoryEntry" /\ last.err = NoError)
          => /\ HasRow(last.before, last.args.id)
             /\ rows = {r \in last.before : r.id # last.args.id}
    /\ (last.op = "GetHistoryEntry" /\ HasRow(rows, last.args.id)
                                    /\ Dangling(RowOf(rows, last.args.id)))
          => (last.err = NoError /\ last.ret = Ref(RowOf(rows, last.args.id)))
    /\ (last.op = "GetHistoryEntries" /\ \E r \in rows : Dangling(r))
          => /\ last.err = NoError
             /\ (last.args.limit > Cardinality(rows) /\ ~last.args.onlyFavorites)
                   => \A r \in rows : Dangling(r) => \E i \in 1..Len(last.ret) : last.ret[i] = r

\* a parent has just been deleted and the entry continuing from it is still
\* in the table
C10_Witness ==
    /\ last.op = "DeleteHistoryEntry"
    /\ last.err = NoError
    /\ \E r \in rows : r.parent_id = ValidInt64(last.args.id) /\ r \in last.before

\* C11: SetFavorite(id, v) on an existing row succeeds and leaves favorite = v;
\* the same call made again at once succeeds and changes nothing; and after
\* SetFavorite(id, false) has cleared a flag that was set, SetFavorite(id, true)
\* brings the table back to what it was with the flag set.
C11_SetFavoriteIdempotent ==
    [][/\ (last'.op = "SetFavorite" /\ HasRow(rows, last'.args.id))
            => /\ last'.err = NoError
               /\ RowOf(rows', last'.args.id).favorite = last'.args.favorite
       /\ (last.op = "SetFavorite" /\ last.err = NoError
             /\ last'.op = "SetFavorite" /\ last'.args = last.args)
            => (last'.err = NoError /\ rows' = rows)
       /\ (last.op = "SetFavorite" /\ last.err = NoError /\ ~last.args.favorite
             /\ RowOf(last.before, last.args.id).favorite
             /\ last'.op = "SetFavorite"
             /\ last'.args = [id |-> last.args.id, favorite |-> TRUE])
            => (last'.err = NoError /\ rows' = last.before)]_vars

\* SetFavorite(id, true) has been called on a row whose flag was already set
C11_Witness ==
    /\ last.op = "SetFavorite"
    /\ last.err = NoError
    /\ last.args.favorite
    /\ HasRow(last.before, last.args.id)
    /\ RowOf(last.before, last.args.id).favorite
    /\ rows = last.before

\* the fields of a row but favorite
Persisted(r) == [r EXCEPT !.favorite = FALSE]

\* C12: whatever the call, a row that is in the table before and after it has
\* the same id, timestamp, prompt, command, details, show_details,
\* error_message, model, input_tokens, output_tokens and parent_id; only
\* SetFavorite changes a favorite, and only that of the row with its id.
C12_Immutable ==
    /\ \A r \in last.before, q \in rows : q.id = r.id => Persisted(q) = Persisted(r)
    /\ last.op # "SetFavorite" => \A r \in last.before, q \in rows : q.id = r.id => q = r
    /\ last.op = "SetFavorite"
          => /\ {r.id : r \in rows} = {r.id : r \in last.before}
             /\ \A r \in last.before : r.id # last.args.id => r \in rows

\* SetFavorite has changed the flag of one of two rows
C12_Witness ==
    /\ last.op = "SetFavorite"
    /\ last.err = NoError
    /\ Cardinality(rows) = 2
    /\ RowOf(rows, last.args.id).favorite # RowOf(last.before, last.args.id).favorite
    /\ \E r \in rows : r.id # last.args.id /\ r.parent_id.Valid /\ r.error_message = <<>>

\* C13: no two rows share an id, and the ids AddHistoryEntry returns are
\* strictly increasing in the order it returns them, also when rows with the
\* largest ids have been deleted in between.
C13_IdsUniqueIncreasing ==
    /\ \A r, q \in rows : r.id = q.id => r = q
    /\ \A i, j \in 1..Len(issued) : i < j => issued[i] < issued[j]
    /\ \A r \in rows : \E i \in 1..Len(issued) : issued[i] = r.id
    /\ (last.op = "AddHistoryEntry" /\ last.err = NoError)
          => (Len(issued) > 0 /\ last.ret = issued[Len(issued)])

\* an id has been returned after the row with the largest id was deleted
C13_Witness ==
    /\ last.op = "AddHistoryEntry"
    /\ last.err = NoError
    /\ Len(issued) = 2
    /\ last.before = {}
    /\ \A r \in rows : r.id = 2

----------------------------------------------------------------------------
(* Properties of the listing and the search, under SearchSpec *)

Range(s) == {s[i] : i \in 1..Len(s)}

\* term is a substring of text, character for character
Contains(text, term) ==
    \E i \in 0..(Len(text) - Len(term)) : SubSeq(text, i + 1, i + Len(term)) = term

\* the row has no character of the term, in either letter case, and the term
\* is made of plain characters: the row does not match it on any reading
Unrelated(r, term) ==
    /\ Chars(term) \cap {"%", "_"} = {}
    /\ Chars(ToLower(term)) \cap (Chars(ToLower(r.prompt)) \cup Chars(ToLower(r.command))) = {}

\* C15: GetHistoryEntries(limit, offset, favoritesOnly, searchTerm) returns,
\* without an error, rows of the table in descending order of timestamp, each
\* once, at most limit of them, favorites only when favoritesOnly; with no
\* search term they are the matching rows that follow the first offset ones
\* in that order; and the result is empty when no row matches.
C15_EntriesOrderedPaged ==
    last.op = "GetHistoryEntries" =>
        LET a    == last.args
            ret  == last.ret
            M    == {r \in rows : a.onlyFavorites => r.favorite}
            rest == M \ Range(ret)
        IN  /\ last.err = NoError
            /\ \A i \in 1..Len(ret) : ret[i] \in rows /\ (a.onlyFavorites => ret[i].favorite)
            /\ \A i, j \in 1..Len(ret) :
                  i < j => (ret[i] # ret[j] /\ ret[i].timestamp >= ret[j].timestamp)
            /\ Len(ret) <= a.limit
            /\ a.searchTerm = <<>>
                  => \E skipped \in SUBSET rest :
                        /\ Cardinality(skipped) = Min2(a.offset, Cardinality(M))
                        /\ \A r \in skipped, q \in Range(ret) : r.timestamp >= q.timestamp
                        /\ \A r \in rest \ skipped, q \in Range(ret) \cup skipped :
                              r.timestamp <= q.timestamp
                        /\ rest \ skipped # {} => Len(ret) = a.limit
            /\ (a.searchTerm # <<>> /\ \A r \in rows : Unrelated(r, a.searchTerm))
                  => ret = <<>>

\* C16: with a search term, no favorites filter and room for every row,
\* GetHistoryEntries returns exactly the rows whose prompt or command has the
\* term as a substring, character for character: letter case counts, and
\* '%' and '_' stand for themselves.
C16_LiteralCaseSensitive ==
    (/\ last.op = "GetHistoryEntries"
     /\ last.err = NoError
     /\ last.args.searchTerm # <<>>
     /\ ~last.args.onlyFavorites
     /\ last.args.offset = 0
     /\ last.args.limit > Cardinality(rows))
        => Range(last.ret) =
              {r \in rows : \/ Contains(r.prompt, last.args.searchTerm)
                            \/ Contains(r.command, last.args.searchTerm)}

\* C17: SearchHistory(term, limit) with a non-empty term returns what
\* GetHistoryEntries(limit, 0, false, term) can return on the same table, and
\* the other way round, also for terms with '%' or '\'; with the empty term
\* SearchHistory returns an error.
C17_SearchIsList ==
    /\ last.op = "SearchHistory"
          => IF last.args.query = <<>>
             THEN last.err # NoError
             ELSE [err |-> last.err, ret |-> last.ret]
                     \in QueryEntries(tableCols, rows, last.args.limit, 0, FALSE, last.args.query)
    /\ (/\ last.op = "GetHistoryEntries"
        /\ last.args.searchTerm # <<>>
        /\ ~last.args.onlyFavorites
        /\ last.args.offset = 0)
          => [err |-> last.err, ret |-> last.ret]
                \in QuerySearch(tableCols, rows, last.args.searchTerm, last.args.limit)

----------------------------------------------------------------------------
(* Properties of the command line, under CliSpec *)

\* the positions of the events of one kind in the events of an invocation
EventsOf(rec, ev) == {i \in 1..Len(rec.events) : rec.events[i].ev = ev}

\* the invocations there are to look at: the running ones and the last ended
Invocations == {inv[p] : p \in Procs} \cup {done}

\* C14: with prompt, history favorite and history delete invocations
\* interleaving on one database, every row with a parent_id has a parent_id
\* smaller than its id, and the row a prompt invocation inserted has as
\* parent_id the id of the entry its GetMostRecentSuccessfulCommand returned
\* before, an entry not newer than the row (no parent_id when it made no lookup).
C14_ParentIsEarlier ==
    /\ \A r \in rows : r.parent_id.Valid => r.parent_id.Int64 < r.id
    /\ (done.cmd = "prompt" /\ done.rowID # 0 /\ HasRow(rows, done.rowID))
          => LET r == RowOf(rows, done.rowID)
             IN  IF r.parent_id.Valid
                 THEN /\ done.previousEntry # Nil
                      /\ r.parent_id.Int64 = Deref(done.previousEntry).id
                      /\ Deref(done.previousEntry).timestamp <= r.timestamp
                      /\ \E i \in EventsOf(done, "lookup"), j \in EventsOf(done, "insert") : i < j
                 ELSE done.previousEntry = Nil

\* a continuation has stored its row while another invocation was running
C14_Witness ==
    /\ done.cmd = "prompt"
    /\ done.rowID # 0
    /\ HasRow(rows, done.rowID)
    /\ RowOf(rows, done.rowID).parent_id.Valid
    /\ \E q \in Procs : inv[q].pc # "idle"

\* C18: a prompt invocation with --continue whose GetMostRecentSuccessfulCommand
\* fails ends with status 1, having sent no request to the model and inserted
\* no row; no invocation runs on after a failed lookup.
C18_NoPreviousAborts ==
    /\ \A p \in Procs : inv[p].prevErr = NoError
    /\ (done.cmd = "prompt" /\ done.prevErr # NoError)
          => /\ done.exit = 1
             /\ EventsOf(done, "request") = {}
             /\ EventsOf(done, "insert") = {}
             /\ done.rowID = 0
             /\ done.events = <<EvLookup, EvStderr>>

\* a --continue on a table with no successful entry has ended
C18_Witness ==
    /\ done.cmd = "prompt"
    /\ done.continueFlag
    /\ done.prevErr = ErrNoPrevious
    /\ done.exit = 1

\* C19: in a prompt invocation with --continue, every request sent to the
\* model is a continuation carrying a parent, and the parent lookup has been
\* made before it; whether or not the database could be opened.
C19_ContinueNeverFresh ==
    \A rec \in Invocations :
        (rec.cmd = "prompt" /\ rec.continueFlag)
            => \A i \in EventsOf(rec, "request") :
                  /\ rec.events[i].kind = "continuation"
                  /\ rec.events[i].previous # Nil
                  /\ \E j \in EventsOf(rec, "lookup") : j < i

\* C20: a prompt invocation whose generation failed ends with status 1, and
\* has inserted a row with its prompt and a non-empty error_message before it
\* wrote the error to stderr (here: for the invocations that opened a
\* database whose table InitSchema created).
C20_FailureLoggedFirst ==
    (done.cmd = "prompt" /\ done.genErr # NoError /\ done.db /\ tableCols = schema)
        => /\ done.exit = 1
           /\ \E i \in EventsOf(done, "insert"), j \in EventsOf(done, "stderr") : i < j
           /\ HasRow(rows, done.rowID)
                 => /\ RowOf(rows, done.rowID).prompt = done.prompt
                    /\ RowOf(rows, done.rowID).error_message # <<>>

\* C21: a prompt invocation that has called the model ends as the generation
\* alone decides, whether or not the database could be opened and the row
\* inserted: a successful generation prints its command and the status is 0,
\* a failed one prints the generation error and the status is 1.
C21_LoggingNeverChangesOutcome ==
    (done.cmd = "prompt" /\ done.message # Nil)
        => LET gen == Generate(Deref(done.message))
           IN  IF gen.err = NoError
               THEN /\ done.exit = 0
                    /\ done.shown = Ref([stdout |-> Deref(gen.response).Command])
                    /\ done.events[Len(done.events)] = EvStdout
               ELSE /\ done.exit = 1
                    /\ done.shown = Ref([stderr |-> gen.err])
                    /\ done.events[Len(done.events)] = EvStderr

\* a successful generation has printed its command although its insert failed
C21_Witness ==
    /\ done.cmd = "prompt"
    /\ done.genErr = NoError
    /\ done.db
    /\ done.dbErr = ErrStorage
    /\ done.exit = 0
    /\ done.shown = Ref([stdout |-> <<"l", "s">>])

\* C22: a prompt invocation inserts nothing while it runs; one that ends
\* without having called the model (configuration error, no API key, parent
\* not found) has inserted no row; one that has called the model on a
\* database it could open has inserted exactly one row, after the call (here:
\* on a database whose table InitSchema created).
C22_ExactlyOneRow ==
    /\ \A p \in Procs : EventsOf(inv[p], "insert") = {}
    /\ (done.cmd = "prompt" /\ EventsOf(done, "request") = {})
          => (EventsOf(done, "insert") = {} /\ done.rowID = 0)
    /\ (done.cmd = "prompt" /\ EventsOf(done, "request") # {} /\ done.db /\ tableCols = schema)
          => /\ Cardinality(EventsOf(done, "insert")) = 1
             /\ \A i \in EventsOf(done, "request"), j \in EventsOf(done, "insert") : i < j
             /\ done.rowID # 0

\* C23: every row written by the prompt command has an empty command exactly
\* when its error_message is non-empty.
C23_CommandAbsentIffError ==
    \A r \in rows : (r.command = <<>>) <=> (r.error_message # <<>>)

C23_Witness ==
    /\ \E r \in rows : r.command = <<>> /\ r.error_message = <<"p", "a", "r", "s", "e">>
    /\ \E r \in rows : r.command # <<>> /\ r.error_message = <<>>

\* C24: every row persisted by the prompt command has a non-empty prompt,
\* whatever argument list (one argument or more) the command was given.
C24_PromptNonEmpty ==
    \A r \in rows : r.prompt # <<>>

\* C25: tell history --favorites displays only entries whose favorite flag is
\* set, with a query argument and without one.
C25_FavoritesOnly ==
    (last.op = "history" /\ last.args.favoriteFlag /\ last.err = NoError)
        => \A i \in 1..Len(last.ret) : last.ret[i].favorite

\* C26: the parent entry handed to GenerateCommandContinuation has a
\* non-empty command and an empty error_message, in every sequence of prompt,
\* history favorite and history delete invocations from an empty database.
C26_ParentIsSuccessful ==
    \A rec \in Invocations :
        \A i \in EventsOf(rec, "request") :
            rec.events[i].kind = "continuation"
                => /\ rec.events[i].previous # Nil
                   /\ Successful(Deref(rec.events[i].previous))

\* a continuation was requested from an entry of the table and its own entry
\* was stored
C26_Witness ==
    /\ \E i \in EventsOf(done, "request") :
          /\ done.events[i].kind = "continuation"
          /\ done.events[i].previous # Nil
          /\ Deref(done.events[i].previous).command = <<"l", "s">>
    /\ done.rowID = MaxId

\* C27: the text buildAssistantResponse writes for an entry with a non-empty
\* command is parsed by parseAndValidateResponse without error into exactly
\* the entry's command, details and show_details.
C27_ReplayRoundTrip ==
    ppc = "parsed"
        => \A entry \in rows :
              /\ parsed.err = NoError
              /\ parsed.resp = Ref([Command     |-> entry.command,
                                    Details     |-> entry.details,
                                    ShowDetails |-> entry.show_details])

\* an entry whose command holds characters json.Marshal escapes was replayed
C27_Witness ==
    /\ ppc = "parsed"
    /\ \E entry \in rows :
          /\ entry.command = <<"a", "<", "b", ">", "&", "1">>
          /\ entry.details = <<"\"", ",">>
          /\ Deref(parsed.resp).Command = entry.command
    /\ Len(responseText) > 50

\* C28: the usage a generation returns, and the input_tokens and
\* output_tokens of the row stored for it, are the input and the output token
\* counts the provider reported for that call.
C28_TokenCountsAsReported ==
    (done.cmd = "prompt" /\ done.message # Nil /\ ~Deref(done.message).apiErr)
        => LET reported == Deref(done.message).Usage
           IN  /\ done.usage # Nil
               /\ Deref(done.usage).InputTokens = reported.InputTokens
               /\ Deref(done.usage).OutputTokens = reported.OutputTokens
               /\ \A r \in rows :
                     (done.rowID # 0 /\ r.id = done.rowID)
                         => /\ r.input_tokens = reported.InputTokens
                            /\ r.output_tokens = reported.OutputTokens

\* C29: no update is lost between history favorite invocations on the same
\* id: each invocation that completes has replaced the flag it had read by
\* its negation, so that two completed invocations, however their statements
\* interleave, leave the flag as it was before them.
C29_TogglesCancelOut ==
    (done.cmd = "favorite" /\ done.exit = 0 /\ done.entry # Nil)
        => /\ done.replaced = Ref(Deref(done.entry).favorite)
           /\ \A r \in rows : r.id = done.id => r.favorite = ~Deref(done.replaced)

\* C30: when a prompt --continue invocation inserts its entry, the row its
\* parent_id names is in the table, also when other invocations have run
\* between its parent lookup and its insert.
C30_ParentThereAtInsert ==
    (done.cmd = "prompt" /\ done.parentID.Valid /\ done.rowID # 0)
        => done.parentThere

====
